---------------------------- MODULE Spec2Model ----------------------------
(***************************************************************************)
(* Accounts receivable ("financeiro"): installment plans (ContaReceber),   *)
(* their installments (Parcela), the Parcela.save() hook with its status   *)
(* update and its rebalancing, and the views that create a plan, edit an   *)
(* installment, register a payment, reverse it and sweep overdue           *)
(* installments; the amount edit step by step, under failures and on two   *)
(* connections; clients, plans of a client and their deletion; the CPF and *)
(* CNPJ validators of the forms.                                           *)
(*                                                                         *)
(* Money is an integer number of cents (DecimalField, decimal_places=2).   *)
(* A date is a number of months since the first date of the model (the     *)
(* day of the month is the same throughout), so that relativedelta adds    *)
(* whole numbers; a nullable date is <<>> (None) or <<d>>.                 *)
(***************************************************************************)
EXTENDS Integers, Sequences, FiniteSets

VARIABLES
    contas,     \* table ContaReceber: sequence of rows, pk = index
    parcelas,   \* table Parcela: sequence of rows, pk = index
    hoje,       \* date.today()
    req,        \* the last request served: view, arguments and outcome
    clientes,   \* table Cliente: sequence of rows, pk = index
    tx          \* the installment edits in flight, one per connection

vars == <<contas, parcelas, hoje, req, clientes, tx>>

----------------------------------------------------------------------------
(* Bounds of the model *)

\* numero_parcelas of a plan in the lifecycle specification
MaxCount == 2
\* numero_parcelas of a plan in the rebalancing specification
MaxCountR == 3
\* valor_total (cents) of a plan in the lifecycle and rebalancing specifications
MaxTotal == 3
\* amounts stay within -MaxValor .. MaxValor (cents) in those specifications
MaxValor == 3
\* the calendar runs over the dates 0 .. MaxDay
MaxDay == 1
\* valor_total (cents) in the plan-generation specification
MaxGenTotal == 40

\* clients and plans in the deletion specification
MaxClientes == 2
MaxContas == 2
\* installments in the table of the two-plan specification
MaxLinhas == 3
\* amounts (cents) in the two-plan specification
MaxValorP == 2
MaxNegativoP == 0

\* ContaReceberForm.clean_numero_parcelas: at most 120 installments
MaxParcelas == 120

----------------------------------------------------------------------------
(* Values *)

None == <<>>
Some(d) == <<d>>
\* truth value of a nullable date (if self.data_pagamento)
IsSet(x) == x # None

Dias == 0 .. MaxDay
\* amounts a ParcelaUpdateForm accepts in the lifecycle specification
NovoValor == 1 .. MaxValor

NoReq == [op |-> "none", pk |-> 0, valor |-> 0, data |-> None, st |-> "",
          outcome |-> "none"]

\* Decimal.quantize(Decimal('0.01'), rounding=ROUND_HALF_UP) of a / b, a >= 0, b > 0
RoundHalfUp(a, b) == (2 * a + b) \div (2 * b)

\* Decimal.quantize(Decimal('0.01'), rounding=ROUND_DOWN) of a / b, b > 0: towards zero
RoundDown(a, b) == IF a >= 0 THEN a \div b ELSE -((-a) \div b)

\* primeiro_vencimento + relativedelta(months=i)
AddMonths(d, i) == d + i

----------------------------------------------------------------------------
(* Queries *)

Pks == 1 .. Len(parcelas)

\* the rows of every plan
TodasAsParcelas(db, c) == 1 .. Len(db)

\* conta.parcelas: the rows of a plan
ParcelasDe(db, c) == {q \in 1 .. Len(db) : db[q].conta = c}

RECURSIVE SomaAte(_, _, _)
\* the amounts of the rows of S among the first i rows, added up
SomaAte(db, S, i) ==
    IF i = 0 THEN 0
    ELSE (IF i \in S THEN db[i].valor_parcela ELSE 0) + SomaAte(db, S, i - 1)

\* aggregate(Sum('valor_parcela')) over a set of rows
SomaValores(db, S) == SomaAte(db, S, Len(db))

\* queryset.order_by('numero_parcela').last()
Ultima(db, S) == CHOOSE q \in S : \A x \in S : db[x].numero_parcela <= db[q].numero_parcela


----------------------------------------------------------------------------
(* Parcela.save() *)

\* an installment due today already counts as overdue
StatusOnSaveVenceHoje(inst, d) ==
    IF IsSet(inst.data_pagamento) THEN "pago"
    ELSE IF inst.status # "pago" /\ inst.data_vencimento <= d THEN "vencido"
    ELSE IF inst.status # "pago" THEN "aberto"
    ELSE inst.status

\* the status derived from the dates alone, whatever the status was
StatusOnSaveSoDatas(inst, d) ==
    IF IsSet(inst.data_pagamento) THEN "pago"
    ELSE IF inst.data_vencimento < d THEN "vencido"
    ELSE "aberto"

\* the status update that opens Parcela.save()
StatusOnSave(inst, d) ==
    IF IsSet(inst.data_pagamento) THEN "pago"
    ELSE IF inst.status # "pago" /\ inst.data_vencimento < d THEN "vencido"
    ELSE IF inst.status # "pago" THEN "aberto"
    ELSE inst.status

\* super().save(*args, **kwargs): every field, or only valor_parcela under
\* update_fields=['valor_parcela']
WriteRow(db, pk, inst, soValor) ==
    IF soValor THEN [db EXCEPT ![pk].valor_parcela = inst.valor_parcela]
    ELSE [db EXCEPT ![pk] = inst]

\* every other row of the plan, paid or not
AjustaveisComPagas(db, pk) ==
    {q \in ParcelasDe(db, db[pk].conta) : q # pk}

\* parcelas_ajustaveis: the unpaid rows of the plan other than the saved one
Ajustaveis(db, pk) ==
    {q \in ParcelasDe(db, db[pk].conta) : db[q].status \in {"aberto", "vencido"} /\ q # pk}

\* the paid rows alone, leaving out the row being saved
SomaSoPagas(db, pk) ==
    SomaValores(db, {q \in ParcelasDe(db, db[pk].conta) : db[q].status = "pago"})

\* soma_nao_ajustaveis: the rows of the plan outside parcelas_ajustaveis
SomaNaoAjustaveis(db, pk) ==
    SomaValores(db, ParcelasDe(db, db[pk].conta) \ Ajustaveis(db, pk))

\* parcelas_ajustaveis.update(valor_parcela=valor_base)
UpdateValor(db, S, v) ==
    [q \in 1 .. Len(db) |-> IF q \in S THEN [db[q] EXCEPT !.valor_parcela = v] ELSE db[q]]

RECURSIVE ParcelaSave(_, _, _, _, _, _, _)
\* Parcela.save() of the stored row pk with the in-memory fields inst, total
\* being conta.valor_total. The result is [ok, db]. The save of the residue on
\* the last adjustable row re-enters save(); seen holds the (row, amount)
\* pairs already being saved on the call stack: a pair met again starts the
\* same calls over, the recursion never returns and Python raises
\* RecursionError (ok = FALSE).
ParcelaSave(db, total, pk, inst0, soValor, d, seen) ==
    LET inst == [inst0 EXCEPT !.status = StatusOnSave(inst0, d)]
    IN  IF db[pk].valor_parcela # inst.valor_parcela /\ inst.status # "pago"
        THEN IF <<pk, inst.valor_parcela>> \in seen
             THEN [ok |-> FALSE, db |-> db]
             ELSE LET db1 == WriteRow(db, pk, inst, soValor)
                      aj == Ajustaveis(db1, pk)
                      num_ajustaveis == Cardinality(aj)
                      saldo_a_distribuir == total - SomaNaoAjustaveis(db1, pk)
                      valor_base == RoundDown(saldo_a_distribuir, num_ajustaveis)
                      db2 == UpdateValor(db1, aj, valor_base)
                      residuo == saldo_a_distribuir - valor_base * num_ajustaveis
                      ultima == Ultima(db2, aj)
                  IN  IF num_ajustaveis > 0
                      THEN IF residuo # 0
                           THEN ParcelaSave(db2, total, ultima,
                                    [db2[ultima] EXCEPT !.valor_parcela = @ + residuo],
                                    TRUE, d, seen \cup {<<pk, inst.valor_parcela>>})
                           ELSE [ok |-> TRUE, db |-> db2]
                      ELSE [ok |-> TRUE, db |-> db1]
        ELSE [ok |-> TRUE, db |-> WriteRow(db, pk, inst, soValor)]

\* Parcela.objects.create(...): save() of a new row (self._state.adding)
ParcelaCreate(db, inst, d) ==
    Append(db, [inst EXCEPT !.status = StatusOnSave(inst, d)])

----------------------------------------------------------------------------
(* Views *)

\* a request to a view: the view, the row or plan, the amount and the date
\* it carries, and how it ended
Req(op, pk, valor, data, outcome) ==
    [op |-> op, pk |-> pk, valor |-> valor, data |-> data, st |-> "",
     outcome |-> outcome]

\* a call of the model API: the row, and the payment date and the status set
\* on the instance before save()
Call(op, pk, valor, data, st, outcome) ==
    [op |-> op, pk |-> pk, valor |-> valor, data |-> data, st |-> st,
     outcome |-> outcome]

\* a form that accepts a first due date in the past
ContaFormSemData(total, n, venc1) ==
    /\ total > 0
    /\ n >= 1
    /\ n <= MaxParcelas

\* ContaReceberForm.is_valid()
ContaFormValid(total, n, venc1) ==
    /\ total > 0
    /\ n >= 1
    /\ n <= MaxParcelas
    /\ venc1 >= hoje

\* diferenca: what the rounded base amounts leave over or take too much
Diferenca(total, n) == total - RoundHalfUp(total, n) * n

\* the last installment left as bulk_create wrote it
SemAjuste(db, c, total, n, d) == [ok |-> TRUE, db |-> db]

\* conta_create: the difference is added to the last installment, which is saved
AjustarUltima(db, c, total, n, d) ==
    LET ultima == Ultima(db, ParcelasDe(db, c))
    IN  IF Diferenca(total, n) # 0
        THEN ParcelaSave(db, total, ultima,
                 [db[ultima] EXCEPT !.valor_parcela = @ + Diferenca(total, n)],
                 FALSE, d, {})
        ELSE [ok |-> TRUE, db |-> db]

\* the rows numbered from 0
ParcelasNumeradasDeZero(c, total, n, venc1) ==
    [i \in 1 .. n |->
        [conta |-> c, numero_parcela |-> i - 1,
         valor_parcela |-> RoundHalfUp(total, n),
         data_vencimento |-> AddMonths(venc1, i - 1),
         data_pagamento |-> None, status |-> "aberto"]]

\* the rows conta_create hands to bulk_create
ParcelasACriar(c, total, n, venc1) ==
    [i \in 1 .. n |->
        [conta |-> c, numero_parcela |-> i,
         valor_parcela |-> RoundHalfUp(total, n),
         data_vencimento |-> AddMonths(venc1, i - 1),
         data_pagamento |-> None, status |-> "aberto"]]

\* conta_create, POST
conta_create(total, n, venc1) ==
    IF ContaFormValid(total, n, venc1)
    THEN LET c == Len(contas) + 1
             db1 == parcelas \o ParcelasACriar(c, total, n, venc1)
             r == AjustarUltima(db1, c, total, n, hoje)
         IN  /\ contas' = IF r.ok
                          THEN Append(contas, [valor_total |-> total, numero_parcelas |-> n])
                          ELSE contas
             /\ parcelas' = IF r.ok THEN r.db ELSE parcelas
             /\ req' = Req("conta_create", c, total, Some(venc1),
                           IF r.ok THEN "ok" ELSE "RecursionError")
             /\ UNCHANGED <<hoje, clientes, tx>>
    ELSE /\ req' = Req("conta_create", 0, total, Some(venc1), "invalid")
         /\ UNCHANGED <<contas, parcelas, hoje, clientes, tx>>

\* a sweep that marks every row past its due date, whatever its status
conta_detail_sem_filtro(c) ==
    /\ c \in 1 .. Len(contas)
    /\ parcelas' = [q \in Pks |->
                      IF /\ parcelas[q].conta = c
                         /\ parcelas[q].data_vencimento < hoje
                      THEN [parcelas[q] EXCEPT !.status = "vencido"]
                      ELSE parcelas[q]]
    /\ req' = Req("conta_detail", c, 0, None, "ok")
    /\ UNCHANGED <<contas, hoje, clientes, tx>>

\* a sweep that marks one overdue row per call, the lowest-numbered one
conta_detail_uma_por_vez(c) ==
    /\ c \in 1 .. Len(contas)
    /\ LET atrasadas == {q \in Pks : /\ parcelas[q].conta = c
                                     /\ parcelas[q].status = "aberto"
                                     /\ parcelas[q].data_vencimento < hoje}
       IN  parcelas' = [q \in Pks |->
                          IF q \in atrasadas /\ \A o \in atrasadas : q <= o
                          THEN [parcelas[q] EXCEPT !.status = "vencido"]
                          ELSE parcelas[q]]
    /\ req' = Req("conta_detail", c, 0, None, "ok")
    /\ UNCHANGED <<contas, hoje, clientes, tx>>

\* conta_detail: the sweep of the overdue rows of plan c
conta_detail(c) ==
    /\ c \in 1 .. Len(contas)
    /\ parcelas' = [q \in Pks |->
                      IF /\ parcelas[q].conta = c
                         /\ parcelas[q].status = "aberto"
                         /\ parcelas[q].data_vencimento < hoje
                      THEN [parcelas[q] EXCEPT !.status = "vencido"]
                      ELSE parcelas[q]]
    /\ req' = Req("conta_detail", c, 0, None, "ok")
    /\ UNCHANGED <<contas, hoje, clientes, tx>>

\* a payment registered on the date the request carries, when it carries one
parcela_dar_baixa_com_data(pk, data) ==
    /\ pk \in Pks
    /\ IF parcelas[pk].status = "pago"
       THEN /\ req' = Req("parcela_dar_baixa", pk, 0, data, "refused")
            /\ UNCHANGED parcelas
       ELSE LET inst == [parcelas[pk] EXCEPT
                            !.data_pagamento = IF IsSet(data) THEN data ELSE Some(hoje)]
                r == ParcelaSave(parcelas, contas[inst.conta].valor_total, pk, inst,
                                 FALSE, hoje, {})
            IN  /\ parcelas' = IF r.ok THEN r.db ELSE parcelas
                /\ req' = Req("parcela_dar_baixa", pk, 0, data,
                              IF r.ok THEN "ok" ELSE "RecursionError")
    /\ UNCHANGED <<contas, hoje, clientes, tx>>

\* a payment registered without looking at the status of the row
parcela_dar_baixa_sem_guarda(pk, data) ==
    /\ pk \in Pks
    /\ LET inst == [parcelas[pk] EXCEPT !.data_pagamento = Some(hoje)]
           r == ParcelaSave(parcelas, contas[inst.conta].valor_total, pk, inst,
                            FALSE, hoje, {})
       IN  /\ parcelas' = IF r.ok THEN r.db ELSE parcelas
           /\ req' = Req("parcela_dar_baixa", pk, 0, data,
                         IF r.ok THEN "ok" ELSE "RecursionError")
    /\ UNCHANGED <<contas, hoje, clientes, tx>>

\* a payment that stores the status and leaves the payment date empty
parcela_dar_baixa_sem_data(pk, data) ==
    /\ pk \in Pks
    /\ IF parcelas[pk].status = "pago"
       THEN /\ req' = Req("parcela_dar_baixa", pk, 0, data, "refused")
            /\ UNCHANGED parcelas
       ELSE LET inst == [parcelas[pk] EXCEPT !.status = "pago"]
                r == ParcelaSave(parcelas, contas[inst.conta].valor_total, pk, inst,
                                 FALSE, hoje, {})
            IN  /\ parcelas' = IF r.ok THEN r.db ELSE parcelas
                /\ req' = Req("parcela_dar_baixa", pk, 0, data,
                              IF r.ok THEN "ok" ELSE "RecursionError")
    /\ UNCHANGED <<contas, hoje, clientes, tx>>

\* parcela_dar_baixa; data is the payment date the request carries, if any
parcela_dar_baixa(pk, data) ==
    /\ pk \in Pks
    /\ IF parcelas[pk].status = "pago"
       THEN /\ req' = Req("parcela_dar_baixa", pk, 0, data, "refused")
            /\ UNCHANGED parcelas
       ELSE LET inst == [parcelas[pk] EXCEPT !.data_pagamento = Some(hoje)]
                r == ParcelaSave(parcelas, contas[inst.conta].valor_total, pk, inst,
                                 FALSE, hoje, {})
            IN  /\ parcelas' = IF r.ok THEN r.db ELSE parcelas
                /\ req' = Req("parcela_dar_baixa", pk, 0, data,
                              IF r.ok THEN "ok" ELSE "RecursionError")
    /\ UNCHANGED <<contas, hoje, clientes, tx>>

\* a reversal that resets the status and keeps the payment date
parcela_estornar_sem_limpar(pk) ==
    /\ pk \in Pks
    /\ IF parcelas[pk].status # "pago"
       THEN /\ req' = Req("parcela_estornar", pk, 0, None, "refused")
            /\ UNCHANGED parcelas
       ELSE LET inst == [parcelas[pk] EXCEPT
                            !.status = IF parcelas[pk].data_vencimento < hoje
                                       THEN "vencido" ELSE "aberto"]
                r == ParcelaSave(parcelas, contas[inst.conta].valor_total, pk, inst,
                                 FALSE, hoje, {})
            IN  /\ parcelas' = IF r.ok THEN r.db ELSE parcelas
                /\ req' = Req("parcela_estornar", pk, 0, None,
                              IF r.ok THEN "ok" ELSE "RecursionError")
    /\ UNCHANGED <<contas, hoje, clientes, tx>>

\* parcela_estornar
parcela_estornar(pk) ==
    /\ pk \in Pks
    /\ IF parcelas[pk].status # "pago"
       THEN /\ req' = Req("parcela_estornar", pk, 0, None, "refused")
            /\ UNCHANGED parcelas
       ELSE LET inst == [parcelas[pk] EXCEPT
                            !.data_pagamento = None,
                            !.status = IF parcelas[pk].data_vencimento < hoje
                                       THEN "vencido" ELSE "aberto"]
                r == ParcelaSave(parcelas, contas[inst.conta].valor_total, pk, inst,
                                 FALSE, hoje, {})
            IN  /\ parcelas' = IF r.ok THEN r.db ELSE parcelas
                /\ req' = Req("parcela_estornar", pk, 0, None,
                              IF r.ok THEN "ok" ELSE "RecursionError")
    /\ UNCHANGED <<contas, hoje, clientes, tx>>

\* an edit saved without looking at the status of the row
parcela_update_sem_guarda(pk, valor, venc) ==
    /\ pk \in Pks
    /\ valor > 0
    /\ LET inst == [parcelas[pk] EXCEPT
                       !.valor_parcela = valor, !.data_vencimento = venc]
           r == ParcelaSave(parcelas, contas[inst.conta].valor_total, pk, inst,
                            FALSE, hoje, {})
       IN  /\ parcelas' = IF r.ok THEN r.db ELSE parcelas
           /\ req' = Req("parcela_update", pk, valor, Some(venc),
                         IF r.ok THEN "ok" ELSE "RecursionError")
    /\ UNCHANGED <<contas, hoje, clientes, tx>>

\* parcela_update, POST with a valid ParcelaUpdateForm (valor > 0, a due date)
parcela_update(pk, valor, venc) ==
    /\ pk \in Pks
    /\ valor > 0
    /\ IF parcelas[pk].status = "pago"
       THEN /\ req' = Req("parcela_update", pk, valor, Some(venc), "refused")
            /\ UNCHANGED parcelas
       ELSE LET inst == [parcelas[pk] EXCEPT
                            !.valor_parcela = valor, !.data_vencimento = venc]
                r == ParcelaSave(parcelas, contas[inst.conta].valor_total, pk, inst,
                                 FALSE, hoje, {})
            IN  /\ parcelas' = IF r.ok THEN r.db ELSE parcelas
                /\ req' = Req("parcela_update", pk, valor, Some(venc),
                              IF r.ok THEN "ok" ELSE "RecursionError")
    /\ UNCHANGED <<contas, hoje, clientes, tx>>

\* the calendar moves to the next date; no request is being served
AdvanceDay ==
    /\ hoje < MaxDay
    /\ hoje' = hoje + 1
    /\ req' = NoReq
    /\ UNCHANGED <<contas, parcelas, clientes, tx>>

----------------------------------------------------------------------------
(* An amount edit step by step: parcela_update loads the row and binds the  *)
(* form, save() reads versao_antiga, and the block under                    *)
(* transaction.atomic() writes the edited row, updates the adjustable       *)
(* siblings and saves the residue. Each request runs on a connection of its *)
(* own; the database is SQLite (settings.py), which admits one writing      *)
(* transaction at a time and shows the other connections what is committed. *)

\* the two connections of two concurrent requests
Conexoes == {1, 2}

Ocioso == [pc |-> "idle"]

\* the positions inside the block under transaction.atomic()
EmBloco == {"escrita", "irmas", "residuo"}

\* what a connection outside the writing transaction reads: the committed rows
Confirmado ==
    IF \E p \in Conexoes : tx[p].pc \in EmBloco
    THEN tx[CHOOSE p \in Conexoes : tx[p].pc \in EmBloco].savepoint
    ELSE parcelas

\* a database that lets two transactions write at the same time
SemBloqueio(p) == TRUE

\* the write lock of the database is free for connection p
BloqueioLivre(p) == \A q \in Conexoes \ {p} : tx[q].pc \notin EmBloco

\* a block opened after the edited row is written
PontoDeRetornoAposEscrita(antes, depois) == depois

\* with transaction.atomic(): super().save(...): the block opens before the
\* edited row is written, and a rollback returns to the rows it found
PontoDeRetorno(antes, depois) == antes

\* the request of connection p is over: where it ended and how
Fim(t, em, outcome) ==
    [pc |-> "fim", pk |-> t.pk, valor |-> t.inst.valor_parcela,
     antes |-> t.antes, em |-> em, outcome |-> outcome]

\* parcela_update up to form.is_valid(): the row is loaded, it is not paid,
\* and the form puts another amount on the instance
Carregar(p, pk, valor) ==
    /\ tx[p].pc = "idle"
    /\ pk \in Pks
    /\ valor > 0
    /\ Confirmado[pk].status # "pago"
    /\ Confirmado[pk].valor_parcela # valor
    /\ tx' = [tx EXCEPT ![p] =
                 [pc |-> "carregada", pk |-> pk,
                  inst |-> [Confirmado[pk] EXCEPT !.valor_parcela = valor],
                  antes |-> Confirmado]]
    /\ UNCHANGED <<contas, parcelas, hoje, req, clientes>>

\* save(): the status update, versao_antiga = Parcela.objects.get(pk=self.pk)
\* and the test that chooses between the block and the plain save
LerVersao(p) ==
    /\ tx[p].pc = "carregada"
    /\ LET inst == [tx[p].inst EXCEPT !.status = StatusOnSave(tx[p].inst, hoje)]
           versao_antiga == Confirmado[tx[p].pk]
       IN  tx' = [tx EXCEPT ![p] =
                     [tx[p] EXCEPT
                         !.inst = inst,
                         !.pc = IF /\ versao_antiga.valor_parcela # inst.valor_parcela
                                   /\ inst.status # "pago"
                                THEN "decidida" ELSE "simples"]]
    /\ UNCHANGED <<contas, parcelas, hoje, req, clientes>>

\* the plain super().save() that ends save()
SalvarSimples(p) ==
    /\ tx[p].pc = "simples"
    /\ BloqueioLivre(p)
    /\ parcelas' = WriteRow(parcelas, tx[p].pk, tx[p].inst, FALSE)
    /\ tx' = [tx EXCEPT ![p] = Fim(tx[p], "simples", "ok")]
    /\ req' = Req("parcela_update", tx[p].pk, tx[p].inst.valor_parcela,
                  Some(tx[p].inst.data_vencimento), "ok")
    /\ UNCHANGED <<contas, hoje, clientes>>

\* the first write finds the database locked by the other connection until
\* the timeout: OperationalError, nothing is written
BloqueioExpirou(p) ==
    /\ tx[p].pc \in {"decidida", "simples"}
    /\ ~BloqueioLivre(p)
    /\ tx' = [tx EXCEPT ![p] = Fim(tx[p], tx[p].pc, "OperationalError")]
    /\ req' = Req("parcela_update", tx[p].pk, tx[p].inst.valor_parcela,
                  Some(tx[p].inst.data_vencimento), "OperationalError")
    /\ UNCHANGED <<contas, parcelas, hoje, clientes>>

\* with transaction.atomic(): super().save(*args, **kwargs)
EntrarBloco(p) ==
    /\ tx[p].pc = "decidida"
    /\ BloqueioLivre(p)
    /\ LET depois == WriteRow(parcelas, tx[p].pk, tx[p].inst, FALSE)
       IN  /\ parcelas' = depois
           /\ tx' = [tx EXCEPT ![p] =
                        [pc |-> "escrita", pk |-> tx[p].pk, inst |-> tx[p].inst,
                         antes |-> tx[p].antes,
                         savepoint |-> PontoDeRetorno(parcelas, depois)]]
    /\ UNCHANGED <<contas, hoje, req, clientes>>

\* parcelas_ajustaveis, soma_nao_ajustaveis, valor_base and the bulk update;
\* with no adjustable row the block ends here and commits
AtualizarIrmas(p) ==
    /\ tx[p].pc = "escrita"
    /\ LET pk == tx[p].pk
           total == contas[parcelas[pk].conta].valor_total
           aj == Ajustaveis(parcelas, pk)
           num_ajustaveis == Cardinality(aj)
           saldo_a_distribuir == total - SomaNaoAjustaveis(parcelas, pk)
           valor_base == RoundDown(saldo_a_distribuir, num_ajustaveis)
           db2 == UpdateValor(parcelas, aj, valor_base)
       IN  IF num_ajustaveis > 0
           THEN /\ parcelas' = db2
                /\ tx' = [tx EXCEPT ![p] =
                             [pc |-> "irmas", pk |-> pk, inst |-> tx[p].inst,
                              antes |-> tx[p].antes, savepoint |-> tx[p].savepoint,
                              residuo |-> saldo_a_distribuir - valor_base * num_ajustaveis,
                              ultima |-> Ultima(db2, aj)]]
                /\ UNCHANGED req
           ELSE /\ tx' = [tx EXCEPT ![p] = Fim(tx[p], "escrita", "ok")]
                /\ req' = Req("parcela_update", pk, tx[p].inst.valor_parcela,
                              Some(tx[p].inst.data_vencimento), "ok")
                /\ UNCHANGED parcelas
    /\ UNCHANGED <<contas, hoje, clientes>>

\* ultima_parcela.valor_parcela += residuo; ultima_parcela.save(...): the
\* nested save() writes the amount of the last adjustable row; with no
\* residue the block commits
SalvarResiduo(p) ==
    /\ tx[p].pc = "irmas"
    /\ IF tx[p].residuo # 0
       THEN /\ parcelas' = WriteRow(parcelas, tx[p].ultima,
                               [parcelas[tx[p].ultima] EXCEPT
                                   !.valor_parcela = @ + tx[p].residuo], TRUE)
            /\ tx' = [tx EXCEPT ![p] =
                         [pc |-> "residuo", pk |-> tx[p].pk, inst |-> tx[p].inst,
                          antes |-> tx[p].antes, savepoint |-> tx[p].savepoint,
                          residuo |-> tx[p].residuo, ultima |-> tx[p].ultima,
                          db2 |-> parcelas]]
            /\ UNCHANGED req
       ELSE /\ tx' = [tx EXCEPT ![p] = Fim(tx[p], "irmas", "ok")]
            /\ req' = Req("parcela_update", tx[p].pk, tx[p].inst.valor_parcela,
                          Some(tx[p].inst.data_vencimento), "ok")
            /\ UNCHANGED parcelas
    /\ UNCHANGED <<contas, hoje, clientes>>

\* the nested save() runs to its end and the block commits, or it never
\* returns: RecursionError leaves the block, which rolls back
ConcluirResiduo(p) ==
    /\ tx[p].pc = "residuo"
    /\ LET db2 == tx[p].db2
           ultima == tx[p].ultima
           r == ParcelaSave(db2, contas[db2[ultima].conta].valor_total, ultima,
                    [db2[ultima] EXCEPT !.valor_parcela = @ + tx[p].residuo],
                    TRUE, hoje, {<<tx[p].pk, tx[p].inst.valor_parcela>>})
       IN  /\ parcelas' = IF r.ok THEN r.db ELSE tx[p].savepoint
           /\ tx' = [tx EXCEPT ![p] =
                        Fim(tx[p], "residuo", IF r.ok THEN "ok" ELSE "RecursionError")]
           /\ req' = Req("parcela_update", tx[p].pk, tx[p].inst.valor_parcela,
                         Some(tx[p].inst.data_vencimento),
                         IF r.ok THEN "ok" ELSE "RecursionError")
    /\ UNCHANGED <<contas, hoje, clientes>>

\* a statement of the block fails (the database, the disk, the process):
\* the exception leaves transaction.atomic(), which rolls back
Falhar(p) ==
    /\ tx[p].pc \in EmBloco
    /\ parcelas' = tx[p].savepoint
    /\ tx' = [tx EXCEPT ![p] = Fim(tx[p], tx[p].pc, "erro")]
    /\ req' = Req("parcela_update", tx[p].pk, tx[p].inst.valor_parcela,
                  Some(tx[p].inst.data_vencimento), "erro")
    /\ UNCHANGED <<contas, hoje, clientes>>

----------------------------------------------------------------------------
(* The lifecycle specification: every view, on one plan of up to MaxCount  *)
(* installments (every query of the views and of save() is filtered by     *)
(* the plan)                                                               *)

Init ==
    /\ contas = <<>>
    /\ parcelas = <<>>
    /\ hoje = 0
    /\ req = NoReq
    /\ clientes = <<>>
    /\ tx = [p \in Conexoes |-> Ocioso]

\* every amount is within the bound of the model
ValoresNoLimite(db) ==
    \A q \in 1 .. Len(db) : db[q].valor_parcela \in (-MaxValor) .. MaxValor

DatasOpt == {None} \cup {Some(d) : d \in Dias}

\* the totals and the counts a creation request may carry: the form
\* receives any number, also a total <= 0, no installment or too many
TotaisPedidos == (-1) .. MaxTotal

ContagensPedidas == (0 .. MaxCount) \cup {MaxParcelas + 1}

CriarConta ==
    /\ contas = <<>>
    /\ \E total \in TotaisPedidos, n \in ContagensPedidas, venc1 \in Dias :
          conta_create(total, n, venc1)

VerConta == \E c \in 1 .. Len(contas) : conta_detail(c)

DarBaixa == \E pk \in Pks, data \in DatasOpt : parcela_dar_baixa(pk, data)

Estornar == \E pk \in Pks : parcela_estornar(pk)

EditarParcela ==
    \E pk \in Pks, valor \in NovoValor, venc \in Dias :
        /\ parcela_update(pk, valor, venc)
        /\ ValoresNoLimite(parcelas')

Next ==
    \/ CriarConta
    \/ VerConta
    \/ DarBaixa
    \/ Estornar
    \/ EditarParcela
    \/ AdvanceDay

Spec == Init /\ [][Next]_vars

----------------------------------------------------------------------------
(* The rebalancing specification: one plan of up to MaxCountR              *)
(* installments; an edit changes the amount and resubmits the due date the *)
(* row has                                                                 *)

CriarContaR ==
    /\ contas = <<>>
    /\ \E total \in 1 .. MaxTotal, n \in 1 .. MaxCountR, venc1 \in Dias :
          conta_create(total, n, venc1)

EditarValor ==
    \E pk \in Pks, valor \in NovoValor :
        /\ parcela_update(pk, valor, parcelas[pk].data_vencimento)
        /\ ValoresNoLimite(parcelas')

DarBaixaR == \E pk \in Pks : parcela_dar_baixa(pk, None)

NextR ==
    \/ CriarContaR
    \/ VerConta
    \/ DarBaixaR
    \/ Estornar
    \/ EditarValor
    \/ AdvanceDay

SpecR == Init /\ [][NextR]_vars

----------------------------------------------------------------------------
(* The two-plan specification: up to MaxContas plans of up to MaxCountR    *)
(* installments side by side, MaxLinhas installments in all, each plan     *)
(* created by a valid request of total MaxValorP due from today; an edit   *)
(* changes either the amount or the due date, and the amounts stay within  *)
(* -MaxNegativoP .. MaxValorP                                              *)

ValoresNoLimiteP(db) ==
    \A q \in 1 .. Len(db) : db[q].valor_parcela \in (-MaxNegativoP) .. MaxValorP

CriarContaP ==
    /\ Len(contas) < MaxContas
    /\ \E n \in 1 .. MaxCountR :
          /\ Len(parcelas) + n <= MaxLinhas
          /\ conta_create(MaxValorP, n, hoje)

EditarValorP ==
    \E pk \in Pks, valor \in 1 .. MaxValorP :
        /\ valor # parcelas[pk].valor_parcela
        /\ parcela_update(pk, valor, parcelas[pk].data_vencimento)
        /\ ValoresNoLimiteP(parcelas')

EditarVencimentoP ==
    \E pk \in Pks, venc \in Dias :
        /\ venc # parcelas[pk].data_vencimento
        /\ parcela_update(pk, parcelas[pk].valor_parcela, venc)

NextP ==
    \/ CriarContaP
    \/ VerConta
    \/ DarBaixaR
    \/ Estornar
    \/ EditarValorP
    \/ EditarVencimentoP
    \/ AdvanceDay

SpecP == Init /\ [][NextP]_vars

----------------------------------------------------------------------------
(* The plan-generation specification: conta_create on every total up to    *)
(* MaxGenTotal and every count the form accepts                            *)

GerarConta ==
    /\ contas = <<>>
    /\ \E total \in 1 .. MaxGenTotal, n \in 1 .. MaxParcelas :
          conta_create(total, n, hoje)

NextGen == GerarConta

SpecGen == Init /\ [][NextGen]_vars

----------------------------------------------------------------------------
(* The model-save specification: Parcela.save() on rows whose fields the   *)
(* caller has set freely (Parcela.objects.create(...), or a stored row     *)
(* changed in memory and saved), as the admin and the tests do             *)

Estados == {"aberto", "pago", "vencido"}

\* ContaReceber.objects.create(...): a plan with no installment yet
conta_objects_create(total) ==
    /\ contas' = Append(contas, [valor_total |-> total, numero_parcelas |-> MaxCount])
    /\ req' = Req("conta_objects_create", Len(contas) + 1, total, None, "ok")
    /\ UNCHANGED <<parcelas, hoje, clientes, tx>>

\* Parcela.objects.create(conta=c, numero_parcela=i, ...)
parcela_objects_create(c, valor, venc, pag, st) ==
    /\ c \in 1 .. Len(contas)
    /\ parcelas' = ParcelaCreate(parcelas,
                       [conta |-> c,
                        numero_parcela |-> Cardinality(ParcelasDe(parcelas, c)) + 1,
                        valor_parcela |-> valor, data_vencimento |-> venc,
                        data_pagamento |-> pag, status |-> st], hoje)
    /\ req' = Call("parcela_objects_create", Len(parcelas) + 1, valor, pag, st, "ok")
    /\ UNCHANGED <<contas, hoje, clientes, tx>>

\* parcela.status = st; parcela.data_vencimento = venc;
\* parcela.data_pagamento = pag; parcela.save()
parcela_save(pk, venc, pag, st) ==
    /\ pk \in Pks
    /\ LET inst == [parcelas[pk] EXCEPT
                       !.data_vencimento = venc, !.data_pagamento = pag, !.status = st]
           r == ParcelaSave(parcelas, contas[inst.conta].valor_total, pk, inst,
                            FALSE, hoje, {})
       IN  /\ parcelas' = IF r.ok THEN r.db ELSE parcelas
           /\ req' = Call("parcela_save", pk, inst.valor_parcela, pag, st,
                          IF r.ok THEN "ok" ELSE "RecursionError")
    /\ UNCHANGED <<contas, hoje, clientes, tx>>

\* the amounts play no part in the status update: one plan total is enough
CriarContaS ==
    /\ contas = <<>>
    /\ conta_objects_create(MaxTotal)

CriarParcelaS ==
    \E c \in 1 .. Len(contas), venc \in Dias, pag \in DatasOpt, st \in Estados :
        /\ Cardinality(ParcelasDe(parcelas, c)) < MaxCount
        /\ parcela_objects_create(c, contas[c].valor_total, venc, pag, st)

SalvarParcelaS ==
    \E pk \in Pks, venc \in Dias, pag \in DatasOpt, st \in Estados :
        parcela_save(pk, venc, pag, st)

NextSave ==
    \/ CriarContaS
    \/ CriarParcelaS
    \/ SalvarParcelaS
    \/ AdvanceDay

SpecSave == Init /\ [][NextSave]_vars

----------------------------------------------------------------------------
(* The failure specification: one plan, payments, then one amount edit     *)
(* step by step on one connection, which a failure may end at any step of  *)
(* the block                                                               *)

NenhumaEdicao == \A p \in Conexoes : tx[p].pc = "idle"

DarBaixaF == NenhumaEdicao /\ DarBaixaR

Carregar1 == \E pk \in Pks, valor \in NovoValor : Carregar(1, pk, valor)

LerVersao1 == LerVersao(1)

EntrarBloco1 == EntrarBloco(1)

AtualizarIrmas1 == AtualizarIrmas(1)

SalvarResiduo1 == SalvarResiduo(1)

ConcluirResiduo1 == ConcluirResiduo(1)

Falhar1 == Falhar(1)

NextFalha ==
    \/ CriarContaR
    \/ DarBaixaF
    \/ Carregar1
    \/ LerVersao1
    \/ EntrarBloco1
    \/ AtualizarIrmas1
    \/ SalvarResiduo1
    \/ ConcluirResiduo1
    \/ Falhar1

SpecFalha == Init /\ [][NextFalha]_vars

----------------------------------------------------------------------------
(* The concurrency specification: one plan of 2..MaxCountR installments,   *)
(* payments, then two amount edits on two different installments, each on  *)
(* a connection of its own, their steps interleaved                        *)

CriarContaC ==
    /\ contas = <<>>
    /\ \E total \in 1 .. MaxTotal, n \in 2 .. MaxCountR :
          conta_create(total, n, hoje)

CarregarC ==
    \E p \in Conexoes, pk \in Pks, valor \in NovoValor :
        /\ \A q \in Conexoes \ {p} : tx[q].pc # "idle" => tx[q].pk # pk
        /\ Carregar(p, pk, valor)

LerVersaoC == \E p \in Conexoes : LerVersao(p)

SalvarSimplesC == \E p \in Conexoes : SalvarSimples(p)

BloqueioExpirouC == \E p \in Conexoes : BloqueioExpirou(p)

EntrarBlocoC == \E p \in Conexoes : EntrarBloco(p)

AtualizarIrmasC == \E p \in Conexoes : AtualizarIrmas(p)

SalvarResiduoC == \E p \in Conexoes : SalvarResiduo(p)

ConcluirResiduoC == \E p \in Conexoes : ConcluirResiduo(p)

NextConc ==
    \/ CriarContaC
    \/ DarBaixaF
    \/ CarregarC
    \/ LerVersaoC
    \/ SalvarSimplesC
    \/ BloqueioExpirouC
    \/ EntrarBlocoC
    \/ AtualizarIrmasC
    \/ SalvarResiduoC
    \/ ConcluirResiduoC

SpecConc == Init /\ [][NextConc]_vars

----------------------------------------------------------------------------
(* The edit-and-payment specification: one plan of up to MaxCountR         *)
(* installments; connection 1 serves parcela_update on an installment,     *)
(* step by step, and connection 2 serves parcela_dar_baixa on the same     *)
(* installment once the edit has loaded it. parcela_dar_baixa runs under   *)
(* @transaction.atomic and takes the write lock for the whole view         *)

\* parcela_update up to form.is_valid(), the form changing the due date only
CarregarVencimento(p, pk, venc) ==
    /\ tx[p].pc = "idle"
    /\ pk \in Pks
    /\ Confirmado[pk].status # "pago"
    /\ Confirmado[pk].data_vencimento # venc
    /\ tx' = [tx EXCEPT ![p] =
                 [pc |-> "carregada", pk |-> pk,
                  inst |-> [Confirmado[pk] EXCEPT !.data_vencimento = venc],
                  antes |-> Confirmado]]
    /\ UNCHANGED <<contas, parcelas, hoje, req, clientes>>

\* parcela_dar_baixa served on connection p
parcela_dar_baixa_em(p, pk) ==
    /\ tx[p].pc = "idle"
    /\ pk \in Pks
    /\ BloqueioLivre(p)
    /\ IF parcelas[pk].status = "pago"
       THEN /\ req' = Req("parcela_dar_baixa", pk, 0, None, "refused")
            /\ tx' = [tx EXCEPT ![p] =
                         [pc |-> "fim", pk |-> pk, valor |-> parcelas[pk].valor_parcela,
                          antes |-> parcelas, em |-> "baixa", outcome |-> "refused"]]
            /\ UNCHANGED parcelas
       ELSE LET inst == [parcelas[pk] EXCEPT !.data_pagamento = Some(hoje)]
                r == ParcelaSave(parcelas, contas[inst.conta].valor_total, pk, inst,
                                 FALSE, hoje, {})
            IN  /\ parcelas' = IF r.ok THEN r.db ELSE parcelas
                /\ req' = Req("parcela_dar_baixa", pk, 0, None,
                              IF r.ok THEN "ok" ELSE "RecursionError")
                /\ tx' = [tx EXCEPT ![p] =
                             [pc |-> "fim", pk |-> pk,
                              valor |-> parcelas[pk].valor_parcela,
                              antes |-> parcelas, em |-> "baixa",
                              outcome |-> IF r.ok THEN "ok" ELSE "RecursionError"]]
    /\ UNCHANGED <<contas, hoje, clientes>>

CriarContaE ==
    /\ contas = <<>>
    /\ \E total \in 1 .. MaxTotal, n \in 1 .. MaxCountR, venc1 \in Dias :
          conta_create(total, n, venc1)

CarregarValorE == \E pk \in Pks, valor \in NovoValor : Carregar(1, pk, valor)

CarregarVencimentoE == \E pk \in Pks, venc \in Dias : CarregarVencimento(1, pk, venc)

\* the payment request arrives after the edit request has read the row
DarBaixaE ==
    /\ tx[1].pc # "idle"
    /\ parcela_dar_baixa_em(2, tx[1].pk)

LerVersaoE == LerVersao(1)

SalvarSimplesE == SalvarSimples(1)

EntrarBlocoE == EntrarBloco(1)

AtualizarIrmasE == AtualizarIrmas(1)

SalvarResiduoE == SalvarResiduo(1)

ConcluirResiduoE == ConcluirResiduo(1)

NextEP ==
    \/ CriarContaE
    \/ CarregarValorE
    \/ CarregarVencimentoE
    \/ DarBaixaE
    \/ LerVersaoE
    \/ SalvarSimplesE
    \/ EntrarBlocoE
    \/ AtualizarIrmasE
    \/ SalvarResiduoE
    \/ ConcluirResiduoE

SpecEP == Init /\ [][NextEP]_vars

----------------------------------------------------------------------------
(* Clients, plans of a client, and deletion. A deleted row stays in its    *)
(* table as a mark, so that no primary key is given twice: existe = FALSE  *)
(* for a client or a plan, status "apagada" and no plan for an installment *)

\* the clients and the plans that exist
ClientesVivos == {i \in 1 .. Len(clientes) : clientes[i].existe}

ContasVivas == {c \in 1 .. Len(contas) : contas[c].existe}

ParcelasVivas == {q \in Pks : parcelas[q].status # "apagada"}

\* cliente.contas: the plans of a client
ContasDe(cli) == {c \in ContasVivas : contas[c].cliente = cli}

\* cliente_create, POST with a valid form
cliente_create ==
    /\ clientes' = Append(clientes, [existe |-> TRUE])
    /\ req' = Req("cliente_create", Len(clientes) + 1, 0, None, "ok")
    /\ UNCHANGED <<contas, parcelas, hoje, tx>>

\* conta_create, POST, with the client the form names (a ModelChoiceField
\* over the clients that exist)
conta_create_cliente(cli, total, n, venc1) ==
    IF ContaFormValid(total, n, venc1) /\ cli \in ClientesVivos
    THEN LET c == Len(contas) + 1
             db1 == parcelas \o ParcelasACriar(c, total, n, venc1)
             r == AjustarUltima(db1, c, total, n, hoje)
         IN  /\ contas' = IF r.ok
                          THEN Append(contas, [valor_total |-> total, numero_parcelas |-> n,
                                               cliente |-> cli, existe |-> TRUE])
                          ELSE contas
             /\ parcelas' = IF r.ok THEN r.db ELSE parcelas
             /\ req' = Req("conta_create", c, total, Some(venc1),
                           IF r.ok THEN "ok" ELSE "RecursionError")
             /\ UNCHANGED <<hoje, clientes, tx>>
    ELSE /\ req' = Req("conta_create", 0, total, Some(venc1), "invalid")
         /\ UNCHANGED <<contas, parcelas, hoje, clientes, tx>>

\* a deletion that goes ahead whatever plans the client has
cliente_delete_sem_guarda(cli) ==
    /\ cli \in ClientesVivos
    /\ clientes' = [clientes EXCEPT ![cli].existe = FALSE]
    /\ req' = Req("cliente_delete", cli, 0, None, "ok")
    /\ UNCHANGED <<contas, parcelas, hoje, tx>>

\* cliente_delete, POST
cliente_delete(cli) ==
    /\ cli \in ClientesVivos
    /\ IF ContasDe(cli) # {}
       THEN /\ req' = Req("cliente_delete", cli, 0, None, "refused")
            /\ UNCHANGED clientes
       ELSE /\ clientes' = [clientes EXCEPT ![cli].existe = FALSE]
            /\ req' = Req("cliente_delete", cli, 0, None, "ok")
    /\ UNCHANGED <<contas, parcelas, hoje, tx>>

\* a deletion of the plan row alone
conta_delete_sem_cascata(c) ==
    /\ c \in ContasVivas
    /\ contas' = [contas EXCEPT ![c].existe = FALSE]
    /\ req' = Req("conta_delete", c, 0, None, "ok")
    /\ UNCHANGED <<parcelas, hoje, clientes, tx>>

\* conta_delete, POST: conta.delete(), which takes the installments of the
\* plan with it (on_delete=CASCADE)
conta_delete(c) ==
    /\ c \in ContasVivas
    /\ contas' = [contas EXCEPT ![c].existe = FALSE]
    /\ parcelas' = [q \in Pks |->
                      IF parcelas[q].conta = c
                      THEN [parcelas[q] EXCEPT !.conta = 0, !.status = "apagada"]
                      ELSE parcelas[q]]
    /\ req' = Req("conta_delete", c, 0, None, "ok")
    /\ UNCHANGED <<hoje, clientes, tx>>

----------------------------------------------------------------------------
(* The deletion specification: up to MaxClientes clients and MaxContas     *)
(* plans, created and deleted in any order                                 *)

CriarCliente ==
    /\ Len(clientes) < MaxClientes
    /\ cliente_create

CriarContaD ==
    /\ Len(contas) < MaxContas
    /\ \E cli \in 1 .. Len(clientes), n \in 1 .. MaxCount :
          conta_create_cliente(cli, MaxTotal, n, hoje)

ExcluirCliente == \E cli \in 1 .. Len(clientes) : cliente_delete(cli)

ExcluirConta == \E c \in 1 .. Len(contas) : conta_delete(c)

NextDel ==
    \/ CriarCliente
    \/ CriarContaD
    \/ ExcluirCliente
    \/ ExcluirConta

SpecDel == Init /\ [][NextDel]_vars

----------------------------------------------------------------------------
(* CPF and CNPJ validation (forms.py). A document is a sequence of          *)
(* characters; a character is a number: 0..9 the ASCII digits '0'..'9', 10  *)
(* a punctuation character ('.', '-', '/'), 20..29 the ARABIC-INDIC digits  *)
(* U+0660..U+0669, which the pattern \d matches in a str and int() reads as *)
(* 0..9.                                                                    *)

\* the digits of the first positions of a generated document are 0 .. MaxDigito
MaxDigito == 1

Pontuacao == 10

\* re.findall(r'\d', ...): a decimal digit of any script
IsDigit(ch) == ch \in (0 .. 9) \cup (20 .. 29)

\* int(ch) of a decimal digit
IntOf(ch) == ch % 20

\* ''.join(re.findall(r'\d', str(documento)))
limpar_documento(documento) == SelectSeq(documento, IsDigit)

RECURSIVE SomaPesos(_, _, _)
\* sum(int(doc[i]) * pesos[i] for i in range(n))
SomaPesos(doc, pesos, n) ==
    IF n = 0 THEN 0 ELSE IntOf(doc[n]) * pesos[n] + SomaPesos(doc, pesos, n - 1)

\* doc == doc[0] * len(doc): the first character repeated
Repetido(doc) == \A i \in 1 .. Len(doc) : doc[i] = doc[1]

\* (10 - i) for i in range(9) and (11 - i) for i in range(10)
PesosCpf1 == [i \in 1 .. 9 |-> 10 - (i - 1)]

PesosCpf2 == [i \in 1 .. 10 |-> 11 - (i - 1)]

\* digito = (soma * 10 % 11) % 10
DigitoCpf(soma) == ((soma * 10) % 11) % 10

validate_cpf(documento) ==
    LET cpf == limpar_documento(documento)
    IN  IF Len(cpf) # 11 THEN FALSE
        ELSE IF Repetido(cpf) THEN FALSE
        ELSE IF DigitoCpf(SomaPesos(cpf, PesosCpf1, 9)) # IntOf(cpf[10]) THEN FALSE
        ELSE IF DigitoCpf(SomaPesos(cpf, PesosCpf2, 10)) # IntOf(cpf[11]) THEN FALSE
        ELSE TRUE

multiplicadores_1 == <<5, 4, 3, 2, 9, 8, 7, 6, 5, 4, 3, 2>>

multiplicadores_2 == <<6, 5, 4, 3, 2, 9, 8, 7, 6, 5, 4, 3, 2>>

\* digito = 11 - (soma % 11); if digito >= 10: digito = 0
DigitoCnpj(soma) == IF 11 - (soma % 11) >= 10 THEN 0 ELSE 11 - (soma % 11)

validate_cnpj(documento) ==
    LET cnpj == limpar_documento(documento)
    IN  IF Len(cnpj) # 14 THEN FALSE
        ELSE IF Repetido(cnpj) THEN FALSE
        ELSE IF DigitoCnpj(SomaPesos(cnpj, multiplicadores_1, 12)) # IntOf(cnpj[13]) THEN FALSE
        ELSE IF DigitoCnpj(SomaPesos(cnpj, multiplicadores_2, 13)) # IntOf(cnpj[14]) THEN FALSE
        ELSE TRUE

\* a call of a validator: the document and the boolean returned
Validacao(op, doc, result) == [op |-> op, doc |-> doc, outcome |-> result]

----------------------------------------------------------------------------
(* The document specification: the validators on documents of 11 and 14     *)
(* digits with every pair of check digits, as typed, with punctuation, with *)
(* a digit missing, with a digit too many, and with the first digit typed   *)
(* in another script. A validator keeps no state: one call is made.         *)

Formas == {"digitos", "pontuado", "curto", "longo", "misto"}

\* the document d as the form f writes it
Escrever(d, f) ==
    CASE f = "digitos" -> d
      [] f = "pontuado" -> SubSeq(d, 1, 3) \o <<Pontuacao>> \o SubSeq(d, 4, 6)
                             \o <<Pontuacao>> \o SubSeq(d, 7, Len(d) - 2)
                             \o <<Pontuacao>> \o SubSeq(d, Len(d) - 1, Len(d))
      [] f = "curto" -> SubSeq(d, 1, Len(d) - 1)
      [] f = "longo" -> d \o <<0>>
      [] f = "misto" -> <<d[1] + 20>> \o SubSeq(d, 2, Len(d))

\* the documents of n digits, then two check digits
Documentos(n) ==
    {base \o <<dv1, dv2>> : base \in [1 .. n -> 0 .. MaxDigito],
                            dv1 \in 0 .. 9, dv2 \in 0 .. 9}

ValidarCpf ==
    /\ req = NoReq
    /\ \E d \in Documentos(9), f \in Formas :
          req' = Validacao("validate_cpf", Escrever(d, f), validate_cpf(Escrever(d, f)))
    /\ UNCHANGED <<contas, parcelas, hoje, clientes, tx>>

ValidarCnpj ==
    /\ req = NoReq
    /\ \E d \in Documentos(12), f \in Formas :
          req' = Validacao("validate_cnpj", Escrever(d, f), validate_cnpj(Escrever(d, f)))
    /\ UNCHANGED <<contas, parcelas, hoje, clientes, tx>>

NextDoc ==
    \/ ValidarCpf
    \/ ValidarCnpj

SpecDoc == Init /\ [][NextDoc]_vars

----------------------------------------------------------------------------
(* The client-form specification: clients registered and updated through   *)
(* ClienteForm. A client row holds the tax ID as the form returned it, a    *)
(* sequence of characters, or None. The requests carry no tax ID, or a CPF  *)
(* whose first seven digits are 0, with right or wrong check digits, typed  *)
(* as digits, with punctuation or with a digit missing                      *)

\* Cliente.cpf_cnpj: CharField(max_length=18)
MaxLenCpfCnpj == 18

\* ClienteForm.clean_cpf_cnpj for the text the request carries; pk is the
\* primary key of the instance being updated, 0 for a registration
clean_cpf_cnpj(cpf_cnpj, pk) ==
    LET documento_limpo == limpar_documento(cpf_cnpj)
        queryset == {i \in 1 .. Len(clientes) :
                        clientes[i].cpf_cnpj = cpf_cnpj /\ i # pk}
    IN  IF Len(cpf_cnpj) > MaxLenCpfCnpj THEN [ok |-> FALSE, valor |-> None]
        ELSE IF cpf_cnpj = <<>> THEN [ok |-> TRUE, valor |-> None]
        ELSE IF Len(documento_limpo) \notin {11, 14} THEN [ok |-> FALSE, valor |-> None]
        ELSE IF Len(documento_limpo) = 11 /\ ~validate_cpf(documento_limpo)
             THEN [ok |-> FALSE, valor |-> None]
        ELSE IF Len(documento_limpo) = 14 /\ ~validate_cnpj(documento_limpo)
             THEN [ok |-> FALSE, valor |-> None]
        ELSE IF queryset # {} THEN [ok |-> FALSE, valor |-> None]
        ELSE [ok |-> TRUE, valor |-> cpf_cnpj]

ReqCliente(op, pk, doc, outcome) == [op |-> op, pk |-> pk, doc |-> doc, outcome |-> outcome]

\* cliente_create, POST, with the tax ID the request carries
cliente_create_form(cpf_cnpj) ==
    LET r == clean_cpf_cnpj(cpf_cnpj, 0)
    IN  /\ clientes' = IF r.ok
                       THEN Append(clientes, [existe |-> TRUE, cpf_cnpj |-> r.valor])
                       ELSE clientes
        /\ req' = ReqCliente("cliente_create", IF r.ok THEN Len(clientes) + 1 ELSE 0,
                             cpf_cnpj, IF r.ok THEN "ok" ELSE "invalid")
        /\ UNCHANGED <<contas, parcelas, hoje, tx>>

\* cliente_update, POST, with the tax ID the request carries
cliente_update(pk, cpf_cnpj) ==
    /\ pk \in 1 .. Len(clientes)
    /\ LET r == clean_cpf_cnpj(cpf_cnpj, pk)
       IN  /\ clientes' = IF r.ok
                          THEN [clientes EXCEPT ![pk].cpf_cnpj = r.valor]
                          ELSE clientes
           /\ req' = ReqCliente("cliente_update", pk, cpf_cnpj,
                                IF r.ok THEN "ok" ELSE "invalid")
    /\ UNCHANGED <<contas, parcelas, hoje, tx>>

FormasCli == {"digitos", "pontuado", "curto"}

\* the two check digits of the nine digits of a CPF
DvCpf(base) ==
    LET dv1 == DigitoCpf(SomaPesos(base, PesosCpf1, 9))
        dv2 == DigitoCpf(SomaPesos(base \o <<dv1>>, PesosCpf2, 10))
    IN  <<dv1, dv2>>

\* nine digits, the first seven 0
BaseCli(a, b) == <<0, 0, 0, 0, 0, 0, 0, a, b>>

\* the tax IDs the requests carry: none, or nine digits with their check
\* digits or with a wrong last digit, in each written form
DocumentosCli ==
    {<<>>} \cup
    {Escrever(BaseCli(a, b) \o <<DvCpf(BaseCli(a, b))[1],
                                  (DvCpf(BaseCli(a, b))[2] + erro) % 10>>, f) :
        a \in 0 .. MaxDigito, b \in 0 .. MaxDigito, erro \in {0, 1}, f \in FormasCli}

RegistrarCliente ==
    /\ Len(clientes) < MaxClientes
    /\ \E doc \in DocumentosCli : cliente_create_form(doc)

AtualizarCliente ==
    \E pk \in 1 .. Len(clientes), doc \in DocumentosCli : cliente_update(pk, doc)

NextCli ==
    \/ RegistrarCliente
    \/ AtualizarCliente

SpecCli == Init /\ [][NextCli]_vars

----------------------------------------------------------------------------
(* Properties *)

SomaDaConta(db, c) == SomaValores(db, ParcelasDe(db, c))

Pagas(db, c) == {q \in ParcelasDe(db, c) : db[q].status = "pago"}

NaoPagas(db, c) == ParcelasDe(db, c) \ Pagas(db, c)

\* the step served parcela_update on an unpaid row, with a new amount, and returned
EditouValor(pk) ==
    /\ pk \in Pks
    /\ req'.op = "parcela_update"
    /\ req'.pk = pk
    /\ req'.outcome = "ok"
    /\ parcelas[pk].status # "pago"
    /\ parcelas[pk].valor_parcela # req'.valor

\* C1 as stated: in every reachable state the amounts of a plan's
\* installments sum exactly to the plan's valor_total.
C1_SomaIgualTotal ==
    \A c \in 1 .. Len(contas) : SomaDaConta(parcelas, c) = contas[c].valor_total

\* C1 amended: plan creation leaves the installments summing exactly to
\* valor_total, and every later operation (edit of amount or due date,
\* mark-paid, reverse-payment, overdue sweep) keeps a sum that equals
\* valor_total, except an amount edit on the only unpaid installment of the
\* plan (empty adjustable set).
C1_SomaMantida ==
    [][\A c \in 1 .. Len(contas') :
          (c \in 1 .. Len(contas) => SomaDaConta(parcelas, c) = contas[c].valor_total)
          => \/ SomaDaConta(parcelas', c) = contas'[c].valor_total
             \/ \E pk \in ParcelasDe(parcelas, c) :
                   EditouValor(pk) /\ Ajustaveis(parcelas, pk) = {}]_vars

\* an amount edit has rebalanced a plan that has a paid installment and two
\* unpaid ones, and the plan sums to its total
C1_Witness ==
    /\ req.op = "parcela_update"
    /\ req.outcome = "ok"
    /\ LET c == parcelas[req.pk].conta
       IN  /\ Cardinality(NaoPagas(parcelas, c)) >= 2
           /\ Pagas(parcelas, c) # {}
           /\ parcelas[req.pk].valor_parcela = req.valor
           /\ \E q \in NaoPagas(parcelas, c) : parcelas[q].valor_parcela # req.valor
           /\ SomaDaConta(parcelas, c) = contas[c].valor_total

\* C2: for every total >= 0.01 and every count in 1..120, the installments
\* created by conta_create have amounts that sum exactly to total.
C2_SomaNaCriacao ==
    (req.op = "conta_create" /\ req.outcome = "ok")
    => /\ req.pk = Len(contas)
       /\ contas[req.pk].valor_total = req.valor
       /\ Cardinality(ParcelasDe(parcelas, req.pk)) = contas[req.pk].numero_parcelas
       /\ SomaDaConta(parcelas, req.pk) = req.valor

\* a plan of 120 installments whose last installment took the difference
C2_Witness ==
    /\ req.op = "conta_create"
    /\ req.outcome = "ok"
    /\ Len(parcelas) = MaxParcelas
    /\ parcelas[Len(parcelas)].valor_parcela # parcelas[1].valor_parcela

\* C3 as stated, for the edits that return: when the amount of an unpaid
\* installment is edited and its plan has another unpaid installment, the
\* edited installment holds exactly the new amount afterwards and the other
\* unpaid installments sum to valor_total minus the paid amounts minus the
\* new amount.
C3_EditadaFixa ==
    [][\A pk \in Pks :
          (EditouValor(pk) /\ Ajustaveis(parcelas, pk) # {})
          => LET c == parcelas[pk].conta
             IN  /\ parcelas'[pk].valor_parcela = req'.valor
                 /\ SomaValores(parcelas', Ajustaveis(parcelas', pk))
                      = contas[c].valor_total
                        - SomaValores(parcelas', Pagas(parcelas', c)) - req'.valor]_vars

\* C4 as stated: every edit of an unpaid installment's amount runs to
\* completion; the chain of re-entrant save() calls is finite.
C4_EdicaoTermina ==
    req.op = "parcela_update" => req.outcome # "RecursionError"

\* C5 as stated: every installment created by conta_create has an amount of
\* at least 0.01.
C5_ParcelasPositivas ==
    (req.op = "conta_create" /\ req.outcome = "ok")
    => \A q \in ParcelasDe(parcelas, req.pk) : parcelas[q].valor_parcela >= 1

\* the status the dates give: PAID if the payment date is set, otherwise
\* OVERDUE if the due date is before d, otherwise OPEN
Derivado(p, d) ==
    IF IsSet(p.data_pagamento) THEN "pago"
    ELSE IF p.data_vencimento < d THEN "vencido"
    ELSE "aberto"

\* C6 as stated: in every reachable state, also when the calendar has
\* advanced with no operation in between, each installment's stored status
\* equals the status derived from its payment date, its due date and today.
C6_StatusDerivado ==
    \A q \in Pks : parcelas[q].status = Derivado(parcelas[q], hoje)

\* C6 amended: in every reachable state each installment's stored status
\* equals the derived status, except that an unpaid installment whose due
\* date has passed may still be stored OPEN; it equals the derived status for
\* every installment of a plan right after the sweep of conta_detail and for
\* an installment right after its payment, its reversal or its edit.
C6_StatusDerivadoOuAberto ==
    /\ \A q \in Pks :
          \/ parcelas[q].status = Derivado(parcelas[q], hoje)
          \/ parcelas[q].status = "aberto" /\ Derivado(parcelas[q], hoje) = "vencido"
    /\ req.op = "conta_detail"
       => \A q \in ParcelasDe(parcelas, req.pk) :
             parcelas[q].status = Derivado(parcelas[q], hoje)
    /\ (req.op \in {"parcela_dar_baixa", "parcela_estornar", "parcela_update"}
          /\ req.outcome = "ok")
       => parcelas[req.pk].status = Derivado(parcelas[req.pk], hoje)

\* the calendar has advanced past the due date of an installment stored OPEN
C6_Witness ==
    /\ req = NoReq
    /\ \E q \in Pks :
          /\ parcelas[q].status = "aberto"
          /\ parcelas[q].data_vencimento < hoje

C10_RecusaSemEfeito ==
    [][\A pk \in Pks :
          \/ req'.op = "parcela_dar_baixa" /\ req'.pk = pk /\ parcelas[pk].status = "pago"
          \/ req'.op = "parcela_estornar" /\ req'.pk = pk /\ parcelas[pk].status # "pago"
          => parcelas' = parcelas]_vars

\* mark-paid was refused on an installment paid on an earlier date, which
\* it keeps
C10_Witness ==
    /\ req.op = "parcela_dar_baixa"
    /\ req.outcome = "refused"
    /\ parcelas[req.pk].status = "pago"
    /\ parcelas[req.pk].data_pagamento = Some(0)
    /\ hoje > 0

\* C11: an edit request (new amount or new due date) on an installment whose
\* status is PAID is refused and leaves the amount, due date, status and
\* payment date of every installment of the plan unchanged.
C11_EdicaoDePagaRecusada ==
    [][\A pk \in Pks :
          (req'.op = "parcela_update" /\ req'.pk = pk /\ parcelas[pk].status = "pago")
          => /\ req'.outcome = "refused"
             /\ parcelas' = parcelas]_vars

\* an edit with another amount and another due date was refused on a paid
\* installment, whose plan has an unpaid installment too
C11_Witness ==
    /\ req.op = "parcela_update"
    /\ req.outcome = "refused"
    /\ parcelas[req.pk].status = "pago"
    /\ parcelas[req.pk].valor_parcela # req.valor
    /\ Some(parcelas[req.pk].data_vencimento) # req.data
    /\ NaoPagas(parcelas, parcelas[req.pk].conta) # {}

\* C12: once an installment is PAID, it stays PAID with the same payment
\* date through every operation (edit attempts on it, edits and payments of
\* sibling installments, overdue sweeps, the calendar advancing) other than
\* reverse-payment invoked on that installment.
C12_PagaAteEstorno ==
    [][\A pk \in Pks :
          (parcelas[pk].status = "pago"
             /\ ~(req'.op = "parcela_estornar" /\ req'.pk = pk))
          => /\ parcelas'[pk].status = "pago"
             /\ parcelas'[pk].data_pagamento = parcelas[pk].data_pagamento]_vars

\* the amount of a sibling was edited and the other unpaid sibling
\* rebalanced, after the due date of an installment paid on an earlier date
C12_Witness ==
    /\ req.op = "parcela_update"
    /\ req.outcome = "ok"
    /\ hoje > 0
    /\ LET c == parcelas[req.pk].conta
       IN  /\ Cardinality(NaoPagas(parcelas, c)) >= 2
           /\ \E q \in Pagas(parcelas, c) :
                 /\ parcelas[q].data_pagamento = Some(0)
                 /\ parcelas[q].data_vencimento < hoje

\* C13: in every reachable state, the installments of a plan created with
\* count n carry exactly the sequence numbers 1..n, with no gaps and no
\* duplicates.
C13_NumerosSequenciais ==
    \A c \in 1 .. Len(contas) :
        /\ Cardinality(ParcelasDe(parcelas, c)) = contas[c].numero_parcelas
        /\ {parcelas[q].numero_parcela : q \in ParcelasDe(parcelas, c)}
              = 1 .. contas[c].numero_parcelas

\* a plan of two installments after a payment was reversed on the second
C13_Witness ==
    /\ req.op = "parcela_estornar"
    /\ req.outcome = "ok"
    /\ parcelas[req.pk].numero_parcela = 2
    /\ Cardinality(ParcelasDe(parcelas, parcelas[req.pk].conta)) = 2

\* C16: a plan-creation request whose total is <= 0, whose count is below 1
\* or above 120, or whose first due date is before today is rejected before
\* any mutation: no plan and no installment is created.
C16_CriacaoInvalidaRejeitada ==
    [][\A total \in TotaisPedidos, n \in ContagensPedidas, venc1 \in Dias :
          (/\ total <= 0 \/ n < 1 \/ n > 120 \/ venc1 < hoje
           /\ conta_create(total, n, venc1))
          => /\ req'.outcome = "invalid"
             /\ contas' = contas
             /\ parcelas' = parcelas]_vars

\* a request with a good total was rejected for a first due date in the
\* past, and there is still no plan and no installment
C16_Witness ==
    /\ req.op = "conta_create"
    /\ req.outcome = "invalid"
    /\ req.valor > 0
    /\ req.data = Some(0)
    /\ hoje > 0
    /\ contas = <<>>
    /\ parcelas = <<>>

\* C18 as stated: saving an installment whose status is PAID and whose
\* payment date is unset sets its payment date to today.
C18_DataDePagamentoAutomatica ==
    (req.op \in {"parcela_save", "parcela_objects_create"}
       /\ req.st = "pago" /\ req.data = None)
    => parcelas[req.pk].data_pagamento = Some(hoje)


\* the digits of a document, as numbers
Digitos(doc) ==
    LET limpo == limpar_documento(doc)
    IN  [i \in 1 .. Len(limpo) |-> IntOf(limpo[i])]

RECURSIVE Ponderada(_, _, _)
\* the weighted sum of the first n digits
Ponderada(ds, pesos, n) ==
    IF n = 0 THEN 0 ELSE ds[n] * pesos[n] + Ponderada(ds, pesos, n - 1)

\* the check digit of the reference algorithm: 0 when the sum mod 11 is
\* below 2, else 11 minus that remainder
DigitoReferencia(soma) == IF soma % 11 < 2 THEN 0 ELSE 11 - (soma % 11)

\* a document of n + 2 digits, not all the same digit, whose last two
\* digits are the check digits under the two weight vectors
DocumentoValido(doc, n, pesos1, pesos2) ==
    LET ds == Digitos(doc)
    IN  /\ Len(ds) = n + 2
        /\ \E i \in 1 .. Len(ds) : ds[i] # ds[1]
        /\ ds[n + 1] = DigitoReferencia(Ponderada(ds, pesos1, n))
        /\ ds[n + 2] = DigitoReferencia(Ponderada(ds, pesos2, n + 1))

\* C19 as stated: validate_cpf returns true exactly for the inputs whose
\* digits, after stripping every non-digit character, are 11 in number, are
\* not all the same digit, and whose 10th and 11th digits equal the check
\* digits of the reference algorithm (weights 10..2 over the first 9 digits
\* and 11..2 over the first 10).
C19_CpfReferencia ==
    req.op = "validate_cpf"
    => (req.outcome <=> DocumentoValido(req.doc, 9,
                            <<10, 9, 8, 7, 6, 5, 4, 3, 2>>,
                            <<11, 10, 9, 8, 7, 6, 5, 4, 3, 2>>))

\* C20 as stated: validate_cnpj returns true exactly for the inputs whose
\* digits, after stripping every non-digit character, are 14 in number, are
\* not all the same digit, and whose 13th and 14th digits equal the check
\* digits computed with the weight vectors [5,4,3,2,9,8,7,6,5,4,3,2] and
\* [6,5,4,3,2,9,8,7,6,5,4,3,2].
C20_CnpjReferencia ==
    req.op = "validate_cnpj"
    => (req.outcome <=> DocumentoValido(req.doc, 12,
                            <<5, 4, 3, 2, 9, 8, 7, 6, 5, 4, 3, 2>>,
                            <<6, 5, 4, 3, 2, 9, 8, 7, 6, 5, 4, 3, 2>>))

\* C14: if a failure occurs at any step of an amount edit with rebalancing
\* (after the edited amount is written, after the bulk update of the
\* adjustable siblings, or during the save of the residue on the last
\* adjustable installment), the stored state afterwards equals the state
\* before the edit.
C14_FalhaDesfazTudo ==
    [][\A p \in Conexoes :
          (/\ tx[p].pc \in EmBloco
           /\ tx'[p].pc = "fim"
           /\ tx'[p].outcome # "ok")
          => parcelas' = tx[p].antes]_vars

\* an edit failed during the save of the residue, after the edited row and
\* its siblings were written, and the rows are those the edit found
C14_Witness ==
    /\ tx[1].pc = "fim"
    /\ tx[1].outcome = "erro"
    /\ tx[1].em = "residuo"
    /\ parcelas = tx[1].antes
    /\ parcelas[tx[1].pk].valor_parcela # tx[1].valor

\* the committed rows of every plan sum to its total
SomaConfirmada ==
    \A c \in 1 .. Len(contas) : SomaDaConta(Confirmado, c) = contas[c].valor_total

\* C15: when two edit-amount requests on two different unpaid installments
\* of the same plan run concurrently with their reads and writes
\* interleaved, the plan's installments still sum to valor_total after both
\* have finished, and each request either takes effect as a whole or fails
\* as a whole: the rows another connection can read change only in the step
\* that ends a request with success, and a request that fails leaves them
\* as they were.
C15_EdicoesConcorrentes ==
    /\ []((\A p \in Conexoes : tx[p].pc = "fim") => SomaConfirmada)
    /\ [][/\ (\E p \in Conexoes : tx[p].pc # "idle") /\ Confirmado' # Confirmado
             => \E p \in Conexoes :
                   tx[p].pc # "fim" /\ tx'[p].pc = "fim" /\ tx'[p].outcome = "ok"
          /\ \A p \in Conexoes :
                (tx[p].pc # "fim" /\ tx'[p].pc = "fim" /\ tx'[p].outcome # "ok")
                => Confirmado' = Confirmado]_vars

\* both requests have finished with success, the second having read the
\* amount of its row before the first one committed and entered its block
\* after, on a plan of three unpaid installments
C15_Witness ==
    /\ tx[1].pc = "fim" /\ tx[1].outcome = "ok"
    /\ tx[2].pc = "fim" /\ tx[2].outcome = "ok"
    /\ tx[1].em = "residuo"
    /\ tx[2].em # "simples"
    /\ tx[2].antes = tx[1].antes
    /\ Cardinality(NaoPagas(parcelas, 1)) >= 3

\* C17: in every reachable state every installment belongs to an existing
\* plan and every plan belongs to an existing client: deleting a client that
\* has at least one plan is refused and changes nothing, and deleting a plan
\* removes all of its installments and no installment of any other plan.
C17_IntegridadeReferencial ==
    /\ [](/\ \A q \in ParcelasVivas : parcelas[q].conta \in ContasVivas
          /\ \A c \in ContasVivas : contas[c].cliente \in ClientesVivos)
    /\ [][/\ \A cli \in ClientesVivos :
                (req'.op = "cliente_delete" /\ req'.pk = cli /\ ContasDe(cli) # {})
                => /\ req'.outcome = "refused"
                   /\ clientes' = clientes
                   /\ contas' = contas
                   /\ parcelas' = parcelas
          /\ \A c \in ContasVivas :
                (req'.op = "conta_delete" /\ req'.pk = c)
                => /\ ~contas'[c].existe
                   /\ \A q \in Pks :
                         IF parcelas[q].conta = c
                         THEN parcelas'[q].status = "apagada"
                         ELSE parcelas'[q] = parcelas[q]]_vars

\* a plan of two installments has been deleted, its installments are gone,
\* and the other plan of the same client keeps its two installments
C17_Witness ==
    /\ req.op = "conta_delete"
    /\ Cardinality(Pks \ ParcelasVivas) = 2
    /\ \E c \in ContasVivas :
          /\ contas[c].cliente = contas[req.pk].cliente
          /\ Cardinality({q \in ParcelasVivas : parcelas[q].conta = c}) = 2

\* C22: calling the overdue sweep of conta_detail twice in a row on a plan,
\* with the same today, leaves exactly the state the first call left.
C22_VarreduraIdempotente ==
    [][\A c \in 1 .. Len(contas) :
          (/\ req.op = "conta_detail"
           /\ req.pk = c
           /\ req'.op = "conta_detail"
           /\ req'.pk = c
           /\ hoje' = hoje)
          => /\ parcelas' = parcelas
             /\ contas' = contas]_vars

\* the sweep has just marked two overdue installments of a plan, and a second
\* call is enabled on the same day
C22_Witness ==
    /\ req.op = "conta_detail"
    /\ hoje > 0
    /\ Cardinality({q \in ParcelasDe(parcelas, req.pk) :
                       /\ parcelas[q].status = "vencido"
                       /\ parcelas[q].data_vencimento < hoje}) >= 2

\* C29: in every state reachable through plan creation, mark-paid,
\* reverse-payment, edits and the overdue sweep, with today never moving
\* backwards, an installment is stored PAID if and only if its payment date
\* is set, and an installment stored OVERDUE has a due date before today.
C29_PagoSseData ==
    \A q \in Pks :
       /\ (parcelas[q].status = "pago") <=> IsSet(parcelas[q].data_pagamento)
       /\ parcelas[q].status = "vencido" => parcelas[q].data_vencimento < hoje

\* a plan holds a paid installment with its payment date and an overdue one,
\* after a reversal
C29_Witness ==
    /\ req.op = "parcela_estornar"
    /\ req.outcome = "ok"
    /\ \E q \in Pks :
          /\ parcelas[q].status = "pago"
          /\ IsSet(parcelas[q].data_pagamento)
          /\ parcelas[q].conta = parcelas[req.pk].conta
    /\ parcelas[req.pk].status = "vencido"
    /\ parcelas[req.pk].data_vencimento < hoje

\* the list with every position at the base amount (ajustar_ultima=False)
calcular_parcelas_so_base(valor_total, numero_parcelas) ==
    [i \in 1 .. numero_parcelas |-> RoundHalfUp(valor_total, numero_parcelas)]

\* calcular_parcelas(valor_total, numero_parcelas), ajustar_ultima=True
calcular_parcelas(valor_total, numero_parcelas) ==
    LET valor_parcela == RoundHalfUp(valor_total, numero_parcelas)
        soma_parcelas == valor_parcela * numero_parcelas
        diferenca == valor_total - soma_parcelas
    IN  [i \in 1 .. numero_parcelas |->
            IF i = numero_parcelas THEN valor_parcela + diferenca ELSE valor_parcela]

\* C30: for every valid total and count, conta_create returns and the amounts
\* it stores equal, position by position, the list calcular_parcelas(total,
\* count) returns; the save() of the last installment leaves installments
\* 1..count-1 at the base amount.
C30_CriacaoIgualCalcular ==
    req.op = "conta_create"
    => /\ req.outcome = "ok"
       /\ LET c == req.pk
              n == contas[c].numero_parcelas
              lista == calcular_parcelas(req.valor, n)
          IN  /\ Len(lista) = n
              /\ {parcelas[q].numero_parcela : q \in ParcelasDe(parcelas, c)} = 1 .. n
              /\ \A q \in ParcelasDe(parcelas, c) :
                    /\ parcelas[q].valor_parcela = lista[parcelas[q].numero_parcela]
                    /\ parcelas[q].numero_parcela < n
                       => parcelas[q].valor_parcela = RoundHalfUp(req.valor, n)

\* a plan of at least three installments whose base amounts summed to more
\* than the total, so that the last installment was lowered and saved
C30_Witness ==
    /\ req.op = "conta_create"
    /\ req.outcome = "ok"
    /\ contas[req.pk].numero_parcelas >= 3
    /\ Diferenca(req.valor, contas[req.pk].numero_parcelas) < 0

\* ContaReceber.total_pago(): the amounts of the rows with status='pago'
total_pago(db, c) == SomaValores(db, Pagas(db, c))

\* ContaReceber.get_status_info()['text']
get_status_info(db, c) ==
    LET total_parcelas == Cardinality(ParcelasDe(db, c))
        parcelas_pagas == Cardinality(Pagas(db, c))
    IN  IF total_parcelas = 0 THEN "Sem Parcelas"
        ELSE IF parcelas_pagas = total_parcelas /\ total_pago(db, c) = contas[c].valor_total
             THEN "Quitada"
        ELSE IF \E q \in ParcelasDe(db, c) : db[q].status = "vencido" THEN "Vencida"
        ELSE IF parcelas_pagas > 0 THEN "Parcial"
        ELSE "Em Aberto"

\* C23 as stated: in every state reachable by creation, edits, payments and
\* reversals, a plan with at least one installment is reported 'Quitada' if
\* and only if every one of its installments is PAID.
C23_QuitadaSseTodasPagas ==
    \A c \in 1 .. Len(contas) :
       ParcelasDe(parcelas, c) # {}
       => (get_status_info(parcelas, c) = "Quitada"
             <=> \A q \in ParcelasDe(parcelas, c) : parcelas[q].status = "pago")

\* C24 as stated, for the edits that return: after an amount edit with a
\* non-empty adjustable set of n installments, every adjustable installment
\* except the one with the highest sequence number has amount
\* floor(target/n), and the one with the highest sequence number has
\* floor(target/n) plus the residue target - n*floor(target/n), where target
\* is valor_total minus the amounts of the edited installment and of the
\* PAID installments.
C24_DistribuicaoPorPiso ==
    [][\A pk \in Pks :
          (EditouValor(pk) /\ Ajustaveis(parcelas, pk) # {})
          => LET c == parcelas[pk].conta
                 aj == Ajustaveis(parcelas, pk)
                 n == Cardinality(aj)
                 alvo == contas[c].valor_total - req'.valor
                           - SomaValores(parcelas, Pagas(parcelas, c))
                 piso == alvo \div n
             IN  \A q \in aj :
                    parcelas'[q].valor_parcela
                      = IF q = Ultima(parcelas, aj)
                        THEN piso + (alvo - n * piso)
                        ELSE piso]_vars

\* C25 as stated: after any accepted edit of an installment amount (new
\* amount >= 0.01) on a plan whose installments all hold at least 0.01, every
\* installment of the plan still holds at least 0.01; no sibling is left at
\* zero or at a negative amount.
C25_ValoresPositivosAposEdicao ==
    [][\A pk \in Pks :
          (/\ EditouValor(pk)
           /\ \A q \in ParcelasDe(parcelas, parcelas[pk].conta) :
                 parcelas[q].valor_parcela >= 1)
          => \A q \in ParcelasDe(parcelas', parcelas[pk].conta) :
                parcelas'[q].valor_parcela >= 1]_vars

\* the step served parcela_update on installment pk, the only unpaid
\* installment of its plan
EditouUnicaNaoPaga(pk) ==
    /\ pk \in Pks
    /\ req'.op = "parcela_update"
    /\ req'.pk = pk
    /\ NaoPagas(parcelas, parcelas[pk].conta) = {pk}

\* C26 as stated: when the edited installment is the only unpaid installment
\* of its plan, the edit is accepted, no other installment changes, and the
\* plan's installments afterwards sum to valor_total minus the old amount
\* plus the new amount.
C26_SomaTotalMenosAntigoMaisNovo ==
    [][\A pk \in Pks :
          EditouUnicaNaoPaga(pk)
          => LET c == parcelas[pk].conta
             IN  /\ req'.outcome = "ok"
                 /\ \A q \in Pks \ {pk} : parcelas'[q] = parcelas[q]
                 /\ SomaDaConta(parcelas', c)
                      = contas[c].valor_total - parcelas[pk].valor_parcela + req'.valor]_vars

\* C26 amended: when the edited installment is the only unpaid installment of
\* its plan, the edit is accepted, the installment holds the new amount, no
\* other installment changes, and the plan's installments afterwards sum to
\* what they summed to before minus the old amount plus the new amount (which
\* is valor_total minus the old amount plus the new amount when the plan
\* summed to valor_total before the edit).
C26_SomaAnteriorMenosAntigoMaisNovo ==
    [][\A pk \in Pks :
          EditouUnicaNaoPaga(pk)
          => LET c == parcelas[pk].conta
             IN  /\ req'.outcome = "ok"
                 /\ parcelas'[pk].valor_parcela = req'.valor
                 /\ \A q \in Pks \ {pk} : parcelas'[q] = parcelas[q]
                 /\ SomaDaConta(parcelas', c)
                      = SomaDaConta(parcelas, c) - parcelas[pk].valor_parcela + req'.valor
                 /\ SomaDaConta(parcelas, c) = contas[c].valor_total
                    => SomaDaConta(parcelas', c)
                         = contas[c].valor_total - parcelas[pk].valor_parcela
                           + req'.valor]_vars

\* the only unpaid installment of a plan with a paid installment has been
\* given a new amount, and the plan no longer sums to its total
C26_Witness ==
    /\ req.op = "parcela_update"
    /\ req.outcome = "ok"
    /\ NaoPagas(parcelas, parcelas[req.pk].conta) = {req.pk}
    /\ Pagas(parcelas, parcelas[req.pk].conta) # {}
    /\ parcelas[req.pk].valor_parcela = req.valor
    /\ SomaDaConta(parcelas, parcelas[req.pk].conta)
         # contas[parcelas[req.pk].conta].valor_total

\* C28: installment amounts change only through an edit-amount action, and
\* then only for installments of the same plan that are not PAID: plan
\* creation, mark-paid, reverse-payment, the overdue sweep and an edit that
\* changes only the due date leave every stored amount unchanged, and
\* rebalancing never changes the amount of a PAID installment or of an
\* installment of another plan.
C28_ValoresSoMudamPorEdicao ==
    [][/\ Len(parcelas') >= Len(parcelas)
       /\ \A q \in Pks :
             parcelas'[q].valor_parcela # parcelas[q].valor_parcela
             => /\ req'.op = "parcela_update"
                /\ req'.outcome = "ok"
                /\ req'.pk \in Pks
                /\ req'.valor # parcelas[req'.pk].valor_parcela
                /\ parcelas[q].conta = parcelas[req'.pk].conta
                /\ parcelas[q].status # "pago"
                /\ parcelas'[q].status # "pago"]_vars

\* an amount edit has rebalanced a plan of two unpaid installments while
\* another plan holds a paid installment
C28_Witness ==
    /\ req.op = "parcela_update"
    /\ req.outcome = "ok"
    /\ Len(contas) = 2
    /\ Ajustaveis(parcelas, req.pk) # {}
    /\ parcelas[req.pk].valor_parcela = req.valor
    /\ \E q \in Ajustaveis(parcelas, req.pk) : parcelas[q].valor_parcela # req.valor
    /\ \E q \in Pks :
          /\ parcelas[q].conta # parcelas[req.pk].conta
          /\ parcelas[q].status = "pago"

\* C27 as stated, on the payment: when an edit request and a mark-paid
\* request for the same installment run concurrently, the edit having read
\* the installment before the payment is written, a recorded payment is
\* never undone by the edit: after both have finished, if mark-paid
\* succeeded the installment is PAID with its payment date set.
C27_PagamentoNaoDesfeito ==
    (/\ tx[1].pc = "fim"
     /\ tx[2].pc = "fim"
     /\ tx[2].em = "baixa"
     /\ tx[2].outcome = "ok")
    => /\ parcelas[tx[2].pk].status = "pago"
       /\ IsSet(parcelas[tx[2].pk].data_pagamento)

\* C21 as stated: after any sequence of client registrations and client
\* updates made through ClienteForm, no two clients hold the same tax ID, two
\* tax IDs being the same when their digit sequences (after stripping
\* non-digit characters) are equal.
C21_DocumentoUnico ==
    \A i \in 1 .. Len(clientes), j \in 1 .. Len(clientes) :
       (/\ i # j
        /\ clientes[i].cpf_cnpj # None
        /\ clientes[j].cpf_cnpj # None)
       => limpar_documento(clientes[i].cpf_cnpj) # limpar_documento(clientes[j].cpf_cnpj)

=============================================================================
